---- MODULE Spec2Model ----
(***************************************************************************)
(* Model of part12/models.py: the stemmer, the tokenizer, the inverted     *)
(* index, the combination of search results, the multi-word search and     *)
(* the highlighter.                                                        *)
(*                                                                         *)
(* A Python str is a sequence of one-character strings; Python offsets     *)
(* are 0-based, so the character at Python index i is text[i + 1].         *)
(* A Python dict is a sequence of entries in insertion order.              *)
(***************************************************************************)
EXTENDS Integers, Sequences, FiniteSets, TLC

VARIABLES sonnets, dictionary, heap, call

vars == <<sonnets, dictionary, heap, call>>

----------------------------------------------------------------------------
(* Characters and strings                                                  *)

Min(a, b) == IF a <= b THEN a ELSE b
Max(a, b) == IF a >= b THEN a ELSE b

\* The characters of the model in code-point order (str comparison).
CharOrder ==
  << " ", "'", ",", ".",
     "0", "1", "2", "3", "4", "5", "6", "7", "8", "9", ":",
     "A", "B", "C", "D", "E", "F", "G", "H", "I", "J", "K", "L", "M",
     "N", "O", "P", "Q", "R", "S", "T", "U", "V", "W", "X", "Y", "Z",
     "a", "b", "c", "d", "e", "f", "g", "h", "i", "j", "k", "l", "m",
     "n", "o", "p", "q", "r", "s", "t", "u", "v", "w", "x", "y", "z" >>

Chars == {CharOrder[i] : i \in 1..Len(CharOrder)}

\* the place of each character in the order
OrdOf == [c \in Chars |-> CHOOSE i \in 1..Len(CharOrder) : CharOrder[i] = c]

ord(c) == OrdOf[c]

\* str.lower() of each character: a capital letter becomes its small letter
LowerOf ==
  [c \in Chars |->
     IF OrdOf[c] >= OrdOf["A"] /\ OrdOf[c] <= OrdOf["Z"]
     THEN CharOrder[OrdOf[c] + (OrdOf["a"] - OrdOf["A"])] ELSE c]

lower_char(c) == LowerOf[c]

\* str.lower()
lower(s) == [i \in 1..Len(s) |-> lower_char(s[i])]

\* the whitespace \S and str.split() separate on
isspace(c) == c = " "

\* Python slice s[a:b] for 0 <= a, b (clamped to the string)
Slice(s, a, b) == SubSeq(s, Min(a, Len(s)) + 1, Min(b, Len(s)))

\* str.endswith
endswith(w, suf) ==
  Len(w) >= Len(suf) /\ SubSeq(w, Len(w) - Len(suf) + 1, Len(w)) = suf

\* word[:-n] for 0 < n <= len(word)
DropLast(w, n) == SubSeq(w, 1, Len(w) - n)

\* the order of tuples of integers, and of strings by code point: a < b
RECURSIVE SeqLess(_, _)
SeqLess(a, b) ==
  IF b = <<>> THEN FALSE
  ELSE IF a = <<>> THEN TRUE
  ELSE IF a[1] # b[1] THEN a[1] < b[1]
  ELSE SeqLess(Tail(a), Tail(b))

----------------------------------------------------------------------------
(* PorterStemmer.stem, normalize, stem                                     *)

\* a step 1a without the rule for a single final s
Step1a_keepsFinalS(word) ==
  IF endswith(word, <<"s","s","e","s">>) THEN DropLast(word, 2)
  ELSE IF endswith(word, <<"i","e","s">>) THEN DropLast(word, 2)
  ELSE word

\* step 1a - handle plurals
Step1a(word) ==
  IF endswith(word, <<"s","s","e","s">>) THEN DropLast(word, 2)
  ELSE IF endswith(word, <<"i","e","s">>) THEN DropLast(word, 2)
  ELSE IF endswith(word, <<"s","s">>) THEN word
  ELSE IF endswith(word, <<"s">>) THEN DropLast(word, 1)
  ELSE word

\* step 1b - handle past tense and gerunds
Step1b(word) ==
  IF endswith(word, <<"e","e","d">>)
    THEN (IF Len(word) > 4 THEN DropLast(word, 1) ELSE word)
  ELSE IF endswith(word, <<"e","d">>)
    THEN (IF Len(word) > 4 THEN DropLast(word, 2) ELSE word)
  ELSE IF endswith(word, <<"i","n","g">>)
    THEN (IF Len(word) > 5 THEN DropLast(word, 3) ELSE word)
  ELSE word

\* step 2 - handle common suffixes
Step2(word) ==
  IF endswith(word, <<"a","t","i","o","n","a","l">>)
    THEN DropLast(word, 5) \o <<"e">>
  ELSE IF endswith(word, <<"t","i","o","n">>) THEN DropLast(word, 4) \o <<"t">>
  ELSE IF endswith(word, <<"n","e","s","s">>) THEN DropLast(word, 4)
  ELSE IF endswith(word, <<"m","e","n","t">>) THEN DropLast(word, 4)
  ELSE IF endswith(word, <<"a","b","l","e">>) THEN DropLast(word, 4)
  ELSE IF endswith(word, <<"i","b","l","e">>) THEN DropLast(word, 4)
  ELSE IF endswith(word, <<"f","u","l">>) THEN DropLast(word, 3)
  ELSE IF endswith(word, <<"o","u","s">>) THEN DropLast(word, 3)
  ELSE IF endswith(word, <<"i","v","e">>) THEN DropLast(word, 3)
  ELSE IF endswith(word, <<"l","y">>) THEN DropLast(word, 2)
  ELSE word

PorterStemmer_stem(word) == Step2(Step1b(Step1a(lower(word))))

IsStripped(c) == c \in {"'", ",", "."}
IsKept(c) == ~IsStripped(c)

normalize(token) == lower(SelectSeq(token, IsKept))

stem(token) == PorterStemmer_stem(normalize(token))

----------------------------------------------------------------------------
(* dict: a sequence of [key, value] entries in insertion order             *)

DictKeys(d) == {d[i].key : i \in 1..Len(d)}
DictHas(d, k) == k \in DictKeys(d)
DictGet(d, k) == d[CHOOSE i \in 1..Len(d) : d[i].key = k].value
\* d[k] = v: a present key keeps its place, a new key goes last
DictPut(d, k, v) ==
  IF DictHas(d, k)
  THEN [i \in 1..Len(d) |-> IF d[i].key = k THEN [key |-> k, value |-> v] ELSE d[i]]
  ELSE Append(d, [key |-> k, value |-> v])
DictValues(d) == [i \in 1..Len(d) |-> d[i].value]

----------------------------------------------------------------------------
(* Index.tokenize, str.split, Sonnet.__init__                              *)

\* the end (exclusive, 0-based) of the run of non-whitespace starting at i
RECURSIVE RunEnd(_, _)
RunEnd(text, i) ==
  IF i >= Len(text) \/ isspace(text[i + 1]) THEN i ELSE RunEnd(text, i + 1)

\* the matches of \S+ from offset i on, as (match.group(), match.start())
RECURSIVE TokensFrom(_, _)
TokensFrom(text, i) ==
  IF i >= Len(text) THEN <<>>
  ELSE IF isspace(text[i + 1]) THEN TokensFrom(text, i + 1)
  ELSE LET e == RunEnd(text, i)
       IN  <<[token |-> Slice(text, i, e), position |-> i]>> \o TokensFrom(text, e)

tokenize(text) == TokensFrom(text, 0)

\* str.split()
RECURSIVE SplitFrom(_, _)
SplitFrom(text, i) ==
  IF i >= Len(text) THEN <<>>
  ELSE IF isspace(text[i + 1]) THEN SplitFrom(text, i + 1)
  ELSE <<Slice(text, i, RunEnd(text, i))>> \o SplitFrom(text, RunEnd(text, i))

split(text) == SplitFrom(text, 0)

\* str.rstrip(":")
RECURSIVE rstrip_colon(_)
rstrip_colon(s) ==
  IF s # <<>> /\ s[Len(s)] = ":" THEN rstrip_colon(DropLast(s, 1)) ELSE s

\* int() of a string of decimal digits
RECURSIVE int(_)
int(s) ==
  IF s = <<>> THEN 0
  ELSE 10 * int(DropLast(s, 1)) + (ord(s[Len(s)]) - ord("0"))

\* Sonnet(sonnet_data): the id comes from a title like "Sonnet 18: ..."
Sonnet(sonnet_data) ==
  LET parts == split(sonnet_data.title)
      number_str == rstrip_colon(parts[2])
  IN  [title |-> sonnet_data.title, lines |-> sonnet_data.lines, id |-> int(number_str)]

----------------------------------------------------------------------------
(* Posting, Index.__init__, Index._add_token                               *)

\* line_no of a posting in the title (None in the source)
NoLine == 0

Posting(line_no, position, token_length) ==
  [line_no |-> line_no, position |-> position, token_length |-> token_length]

\* self.dictionary: stemmed token -> dict doc_id -> list of Posting
add_token(dict, doc_id, token, line_no, position, token_length) ==
  LET d1 == IF token \in DOMAIN dict THEN dict ELSE (token :> <<>>) @@ dict
      postings_list == d1[token]
      pl1 == IF DictHas(postings_list, doc_id) THEN postings_list
             ELSE DictPut(postings_list, doc_id, <<>>)
      pl2 == DictPut(pl1, doc_id,
                     Append(DictGet(pl1, doc_id), Posting(line_no, position, token_length)))
  IN  [d1 EXCEPT ![token] = pl2]

\* an index that stores the length of the stem instead of the token's
RECURSIVE IndexTokens_stemLength(_, _, _, _)
IndexTokens_stemLength(dict, doc_id, tokens, line_no) ==
  IF tokens = <<>> THEN dict
  ELSE LET t == Head(tokens)
           stemmed == stem(t.token)
       IN  IndexTokens_stemLength(
             add_token(dict, doc_id, stemmed, line_no, t.position, Len(stemmed)),
             doc_id, Tail(tokens), line_no)

\* for token, position in tokens: _add_token(id, stem(token), line_no, position, len(token))
RECURSIVE IndexTokens(_, _, _, _)
IndexTokens(dict, doc_id, tokens, line_no) ==
  IF tokens = <<>> THEN dict
  ELSE LET t == Head(tokens)
           stemmed == stem(t.token)
       IN  IndexTokens(add_token(dict, doc_id, stemmed, line_no, t.position, Len(t.token)),
                       doc_id, Tail(tokens), line_no)

\* for line_no, line in enumerate(sonnet.lines, start=1)
RECURSIVE IndexLines(_, _, _)
IndexLines(dict, sonnet, line_no) ==
  IF line_no > Len(sonnet.lines) THEN dict
  ELSE IndexLines(IndexTokens(dict, sonnet.id, tokenize(sonnet.lines[line_no]), line_no),
                  sonnet, line_no + 1)

IndexSonnet(dict, sonnet) ==
  IndexLines(IndexTokens(dict, sonnet.id, tokenize(sonnet.title), NoLine), sonnet, 1)

RECURSIVE IndexSonnets(_, _)
IndexSonnets(dict, list) ==
  IF list = <<>> THEN dict
  ELSE IndexSonnets(IndexSonnet(dict, Head(list)), Tail(list))

\* self.sonnets = {sonnet.id: sonnet for sonnet in sonnets}
RECURSIVE SonnetsById(_, _)
SonnetsById(d, list) ==
  IF list = <<>> THEN d
  ELSE SonnetsById(DictPut(d, Head(list).id, Head(list)), Tail(list))

\* Index(sonnets)
Index(list) ==
  [sonnets |-> SonnetsById(<<>>, list), dictionary |-> IndexSonnets(<<>>, list)]

----------------------------------------------------------------------------
(* sorted(): the list is given as [key, value] entries, each key a tuple   *)
(* of integers                                                             *)

\* x goes before the first entry whose key is greater (a stable insertion)
RECURSIVE InsertSorted(_, _)
InsertSorted(x, s) ==
  IF s = <<>> THEN <<x>>
  ELSE IF SeqLess(x.key, Head(s).key) THEN <<x>> \o s
  ELSE <<Head(s)>> \o InsertSorted(x, Tail(s))

RECURSIVE SortedFrom(_, _)
SortedFrom(acc, s) ==
  IF s = <<>> THEN acc
  ELSE SortedFrom(InsertSorted(Head(s), acc), Tail(s))

\* the values in the order of their keys; equal keys keep their order
sorted(keyed) == DictValues(SortedFrom(<<>>, keyed))

\* sorted(spans): a span (start, end) is its own key
sorted_spans(spans) == sorted([i \in 1..Len(spans) |-> [key |-> spans[i], value |-> spans[i]]])

\* sorted(line_matches, key=lambda x: x.line_no)
sorted_by_line_no(line_matches) ==
  sorted([i \in 1..Len(line_matches) |->
            [key |-> <<line_matches[i].line_no>>, value |-> line_matches[i]]])

\* sorted(results, key=lambda sr: sr.title)
sorted_by_title(results) ==
  sorted([i \in 1..Len(results) |->
            [key |-> [c \in 1..Len(results[i].title) |-> ord(results[i].title[c])],
             value |-> results[i]]])

----------------------------------------------------------------------------
(* LineMatch, SearchResult, SearchResult.combine_with                      *)

LineMatch(line_no, text, spans) == [line_no |-> line_no, text |-> text, spans |-> spans]

SearchResult(title, title_spans, line_matches, matches) ==
  [title |-> title, title_spans |-> title_spans,
   line_matches |-> line_matches, matches |-> matches]

\* lines_by_no = {lm.line_no: lm.copy() for lm in self.line_matches}
RECURSIVE LinesByNo(_, _)
LinesByNo(d, line_matches) ==
  IF line_matches = <<>> THEN d
  ELSE LinesByNo(DictPut(d, Head(line_matches).line_no, Head(line_matches)),
                 Tail(line_matches))

\* a merge that replaces the spans of a line present by those of other
RECURSIVE MergeLines_replaces(_, _)
MergeLines_replaces(lines_by_no, line_matches) ==
  IF line_matches = <<>> THEN lines_by_no
  ELSE MergeLines_replaces(
         DictPut(lines_by_no, Head(line_matches).line_no, Head(line_matches)),
         Tail(line_matches))

\* for lm in other.line_matches: join the spans of a line present, add a line absent
RECURSIVE MergeLines(_, _)
MergeLines(lines_by_no, line_matches) ==
  IF line_matches = <<>> THEN lines_by_no
  ELSE LET lm == Head(line_matches)
           ln == lm.line_no
           old == DictGet(lines_by_no, ln)
           d1 == IF DictHas(lines_by_no, ln)
                 THEN DictPut(lines_by_no, ln, [old EXCEPT !.spans = old.spans \o lm.spans])
                 ELSE DictPut(lines_by_no, ln, lm)
       IN  MergeLines(d1, Tail(line_matches))

\* the value self.combine_with(other) returns
combine_with(self, other) ==
  LET lines_by_no == MergeLines(LinesByNo(<<>>, self.line_matches), other.line_matches)
  IN  SearchResult(self.title,
                   sorted_spans(self.title_spans \o other.title_spans),
                   sorted_by_line_no(DictValues(lines_by_no)),
                   self.matches + other.matches)

----------------------------------------------------------------------------
(* combine_with on objects: the heap is a sequence of LineMatch and        *)
(* SearchResult objects, a reference is an index into it, and the          *)
(* line_matches of a SearchResult object are references                    *)

Alloc(h, obj) == [heap |-> Append(h, obj), ref |-> Len(h) + 1]

\* LineMatch.copy for each reference of a list: the heap and the new references
RECURSIVE CopyLineMatches(_, _)
CopyLineMatches(h, refs) ==
  IF refs = <<>> THEN [heap |-> h, refs |-> <<>>]
  ELSE LET first == Alloc(h, h[Head(refs)])
           rest == CopyLineMatches(first.heap, Tail(refs))
       IN  [heap |-> rest.heap, refs |-> <<first.ref>> \o rest.refs]

\* SearchResult.copy
SearchResult_copy(h, ref) ==
  LET lms == CopyLineMatches(h, h[ref].line_matches)
  IN  Alloc(lms.heap, [h[ref] EXCEPT !.line_matches = lms.refs])

\* a lines_by_no that holds the LineMatch objects of self themselves
RECURSIVE LinesByNoObj_shared(_, _, _)
LinesByNoObj_shared(h, d, refs) ==
  IF refs = <<>> THEN [heap |-> h, dict |-> d]
  ELSE LinesByNoObj_shared(h, DictPut(d, h[Head(refs)].line_no, Head(refs)), Tail(refs))

\* lines_by_no = {lm.line_no: lm.copy() for lm in self.line_matches}
RECURSIVE LinesByNoObj(_, _, _)
LinesByNoObj(h, d, refs) ==
  IF refs = <<>> THEN [heap |-> h, dict |-> d]
  ELSE LET c == Alloc(h, h[Head(refs)])
       IN  LinesByNoObj(c.heap, DictPut(d, h[Head(refs)].line_no, c.ref), Tail(refs))

\* for lm in other.line_matches: lines_by_no[ln].spans is set, or a copy of lm added
RECURSIVE MergeLinesObj(_, _, _)
MergeLinesObj(h, d, refs) ==
  IF refs = <<>> THEN [heap |-> h, dict |-> d]
  ELSE LET lm == h[Head(refs)]
           ln == lm.line_no
           at == DictGet(d, ln)
           c == Alloc(h, lm)
       IN  IF DictHas(d, ln)
           THEN MergeLinesObj([h EXCEPT ![at].spans = h[at].spans \o lm.spans], d, Tail(refs))
           ELSE MergeLinesObj(c.heap, DictPut(d, ln, c.ref), Tail(refs))

\* self.combine_with(other) on the heap: the heap after it and the reference returned
combine_with_obj(h, self, other) ==
  LET combined == SearchResult_copy(h, self)
      h1 == [combined.heap EXCEPT
               ![combined.ref].matches = h[self].matches + h[other].matches,
               ![combined.ref].title_spans =
                  sorted_spans(h[self].title_spans \o h[other].title_spans)]
      byno == LinesByNoObj(h1, <<>>, h1[self].line_matches)
      merged == MergeLinesObj(byno.heap, byno.dict, byno.heap[other].line_matches)
      h2 == merged.heap
      refs == DictValues(merged.dict)
      line_matches == sorted([i \in 1..Len(refs) |->
                                [key |-> <<h2[refs[i]].line_no>>, value |-> refs[i]]])
  IN  [heap |-> [h2 EXCEPT ![combined.ref].line_matches = line_matches],
       ref |-> combined.ref]

\* the objects of a SearchResult value, allocated: the heap and the reference
RECURSIVE NewLineMatches(_, _)
NewLineMatches(h, line_matches) ==
  IF line_matches = <<>> THEN [heap |-> h, refs |-> <<>>]
  ELSE LET first == Alloc(h, Head(line_matches))
           rest == NewLineMatches(first.heap, Tail(line_matches))
       IN  [heap |-> rest.heap, refs |-> <<first.ref>> \o rest.refs]

NewSearchResult(h, result) ==
  LET lms == NewLineMatches(h, result.line_matches)
  IN  Alloc(lms.heap, [result EXCEPT !.line_matches = lms.refs])

\* the value of the SearchResult object at a reference
Deref(h, ref) ==
  [h[ref] EXCEPT !.line_matches =
     [i \in 1..Len(h[ref].line_matches) |-> h[h[ref].line_matches[i]]]]

----------------------------------------------------------------------------
(* Index.search_for                                                        *)

\* the SearchResult of one posting: one title span or one LineMatch, matches = 1
PostingResult(sonnet, posting) ==
  LET span == <<posting.position, posting.position + posting.token_length>>
  IN  IF posting.line_no = NoLine
      THEN SearchResult(sonnet.title, <<span>>, <<>>, 1)
      ELSE SearchResult(sonnet.title, <<>>,
                        <<LineMatch(posting.line_no, sonnet.lines[posting.line_no], <<span>>)>>,
                        1)

\* for posting in postings: results[doc_id] = result, or combined with the one present
RECURSIVE SearchPostings(_, _, _, _)
SearchPostings(results, snts, doc_id, postings) ==
  IF postings = <<>> THEN results
  ELSE LET result == PostingResult(DictGet(snts, doc_id), Head(postings))
           r1 == IF ~DictHas(results, doc_id)
                 THEN DictPut(results, doc_id, result)
                 ELSE DictPut(results, doc_id, combine_with(DictGet(results, doc_id), result))
       IN  SearchPostings(r1, snts, doc_id, Tail(postings))

\* for doc_id, postings in postings_list.items()
RECURSIVE SearchPostingsList(_, _, _)
SearchPostingsList(results, snts, postings_list) ==
  IF postings_list = <<>> THEN results
  ELSE SearchPostingsList(
         SearchPostings(results, snts, Head(postings_list).key, Head(postings_list).value),
         snts, Tail(postings_list))

\* a search_for that looks the token up as given
LookupKey_unstemmed(token) == token

\* the token search_for looks up
LookupKey(token) == stem(token)

\* Index.search_for(token): dict doc_id -> SearchResult
search_for(snts, dict, token) ==
  LET stemmed_token == LookupKey(token)
  IN  IF stemmed_token \in DOMAIN dict
      THEN SearchPostingsList(<<>>, snts, dict[stemmed_token])
      ELSE <<>>

----------------------------------------------------------------------------
(* Searcher.search                                                         *)

\* AND: new_combined holds the documents of combined_results that results has too
RECURSIVE AndCombine(_, _, _)
AndCombine(new_combined, combined_results, results) ==
  IF combined_results = <<>> THEN new_combined
  ELSE LET doc_id == Head(combined_results).key
           n1 == IF DictHas(results, doc_id)
                 THEN DictPut(new_combined, doc_id,
                              combine_with(Head(combined_results).value,
                                           DictGet(results, doc_id)))
                 ELSE new_combined
       IN  AndCombine(n1, Tail(combined_results), results)

\* an OR that rebuilds the running set from the documents of results alone
OrCombine_onlyResults(combined_results, results) ==
  [i \in 1..Len(results) |->
     IF DictHas(combined_results, results[i].key)
     THEN [key |-> results[i].key,
           value |-> combine_with(DictGet(combined_results, results[i].key),
                                  results[i].value)]
     ELSE results[i]]

\* OR: every document of results is combined into, or added to, combined_results
RECURSIVE OrCombine(_, _)
OrCombine(combined_results, results) ==
  IF results = <<>> THEN combined_results
  ELSE LET doc_id == Head(results).key
           result == Head(results).value
           c1 == IF DictHas(combined_results, doc_id)
                 THEN DictPut(combined_results, doc_id,
                              combine_with(DictGet(combined_results, doc_id), result))
                 ELSE DictPut(combined_results, doc_id, result)
       IN  OrCombine(c1, Tail(results))

\* the body of "for word in words" for one word
SearchWord(snts, dict, combined_results, word, search_mode) ==
  LET results == search_for(snts, dict, word)
  IN  IF combined_results = <<>> THEN results
      ELSE IF search_mode = "AND" THEN AndCombine(<<>>, combined_results, results)
      ELSE IF search_mode = "OR" THEN OrCombine(combined_results, results)
      ELSE combined_results

\* the values combined_results takes: entry k is its value after k words
RECURSIVE SearchWords(_, _, _, _, _)
SearchWords(snts, dict, combined_results, words, search_mode) ==
  IF words = <<>> THEN <<>>
  ELSE LET c1 == SearchWord(snts, dict, combined_results, Head(words), search_mode)
       IN  <<c1>> \o SearchWords(snts, dict, c1, Tail(words), search_mode)

\* Searcher.search(query, search_mode): it has no raise statement, so it
\* always returns the list
SearchReturn(steps) ==
  LET combined_results == IF steps = <<>> THEN <<>> ELSE steps[Len(steps)]
  IN  [raised |-> FALSE,
       value |-> sorted_by_title(DictValues(combined_results))]

search(snts, dict, query, search_mode) ==
  SearchReturn(SearchWords(snts, dict, <<>>, split(query), search_mode))

----------------------------------------------------------------------------
(* SearchResult.ansi_highlight: the text returned is a sequence of         *)
(* characters and escape sequences, each escape sequence one element       *)

AnsiDefault == "ESC[43mESC[30m"
AnsiGreen == "ESC[1;92m"
AnsiReset == "ESC[0m"

\* a merge that joins only spans that overlap
RECURSIVE MergeSpans_strict(_, _, _)
MergeSpans_strict(current, spans, merged) ==
  IF spans = <<>> THEN Append(merged, current)
  ELSE LET s == Head(spans)[1]
           e == Head(spans)[2]
       IN  IF s < current[2]
           THEN MergeSpans_strict(<<current[1], Max(current[2], e)>>, Tail(spans), merged)
           ELSE MergeSpans_strict(<<s, e>>, Tail(spans), Append(merged, current))

\* for s, e in spans[1:]: extend the current span or close it and start the next
RECURSIVE MergeSpans(_, _, _)
MergeSpans(current, spans, merged) ==
  IF spans = <<>> THEN Append(merged, current)
  ELSE LET s == Head(spans)[1]
           e == Head(spans)[2]
       IN  IF s <= current[2]
           THEN MergeSpans(<<current[1], Max(current[2], e)>>, Tail(spans), merged)
           ELSE MergeSpans(<<s, e>>, Tail(spans), Append(merged, current))

\* for s, e in merged: the text before, the escape sequence, the span, the reset
RECURSIVE Render(_, _, _, _)
Render(text, merged, i, ansi_sequence) ==
  IF merged = <<>> THEN Slice(text, i, Len(text))
  ELSE LET s == Head(merged)[1]
           e == Head(merged)[2]
       IN  Slice(text, i, s) \o <<ansi_sequence>> \o Slice(text, s, e) \o <<AnsiReset>>
             \o Render(text, Tail(merged), e, ansi_sequence)

ansi_highlight(text, spans, highlight_mode) ==
  IF spans = <<>> THEN text
  ELSE LET ordered == sorted_spans(spans)
           merged == MergeSpans(Head(ordered), Tail(ordered), <<>>)
           ansi_sequence == IF highlight_mode = "DEFAULT" THEN AnsiDefault ELSE AnsiGreen
       IN  Render(text, merged, 0, ansi_sequence)

----------------------------------------------------------------------------
(* The inputs: documents, query words, search modes                        *)

\* longest query, in words
MaxWords == 3

Doc1 ==
  [title |-> <<"S","o","n","n","e","t"," ","1",":"," ","R","o","s","e">>,
   lines |-> << <<"F","r","o","m"," ","f","a","i","r","e","s","t"," ","r","o","s","e","s">>,
                <<"l","o","v","i","n","g"," "," ","r","o","s","e",".">> >>]
Doc2 ==
  [title |-> <<"S","o","n","n","e","t"," ","2",":"," ","O","t","h","e","r">>,
   lines |-> << <<"T","h","y"," ","b","e","a","u","t","y","'","s"," ","r","o","s","e">> >>]
Doc3 ==
  [title |-> <<"S","o","n","n","e","t"," ","3",":"," ","L","o","v","i","n","g","l","y">>,
   lines |-> << <<"b","l","e","s","s","e","d"," ","t","h","y">> >>]

DocPool == {Doc1, Doc2, Doc3}

IsInjective(f) == \A i, j \in DOMAIN f : f[i] = f[j] => i = j

\* the document lists a Searcher is built from: distinct documents in any order
Corpora ==
  {c \in UNION {[1..n -> DocPool] : n \in 1..Cardinality(DocPool)} : IsInjective(c)}

QueryWords ==
  { <<"r","o","s","e">>, <<"f","a","i","r","e","s","t">>, <<"t","h","y">>, <<"z","z","z">>,
    <<"L","o","v","i","n","g">> }

RECURSIVE join(_)
join(words) ==
  IF words = <<>> THEN <<>>
  ELSE IF Len(words) = 1 THEN words[1]
  ELSE words[1] \o <<" ">> \o join(Tail(words))

Queries == {join(ws) : ws \in UNION {[1..n -> QueryWords] : n \in 0..MaxWords}}

SearchModes == {"AND", "OR", "XOR"}

\* every token of a text, as written
SurfaceTokens(text) == {tokenize(text)[i].token : i \in 1..Len(tokenize(text))}
DocTexts(doc) == {doc.title} \cup {doc.lines[i] : i \in 1..Len(doc.lines)}
DocTokens(doc) == UNION {SurfaceTokens(text) : text \in DocTexts(doc)}

\* the tokens search_for is called with
SearchTokens ==
  LET surface == UNION {DocTokens(doc) : doc \in DocPool}
  IN  QueryWords \cup surface \cup {stem(t) : t \in surface}

----------------------------------------------------------------------------
(* The search engine: the state after Searcher(sonnets), then its calls    *)

\* no call is in progress
Idle == [op |-> "idle"]

Init ==
  \E c \in Corpora :
    LET list == [i \in 1..Len(c) |-> Sonnet(c[i])]
    IN  /\ sonnets = Index(list).sonnets
        /\ dictionary = Index(list).dictionary
        /\ heap = <<>>
        /\ call = Idle

\* index.search_for(token)
SearchFor ==
  /\ call = Idle
  /\ \E token \in SearchTokens :
       call' = [op |-> "search_for", token |-> token,
                ret |-> search_for(sonnets, dictionary, token)]
  /\ UNCHANGED <<sonnets, dictionary, heap>>

\* searcher.search(query, search_mode)
Search ==
  /\ call = Idle
  /\ \E query \in Queries, search_mode \in SearchModes :
       LET steps == SearchWords(sonnets, dictionary, <<>>, split(query), search_mode)
       IN  call' = [op |-> "search", query |-> query, search_mode |-> search_mode,
                    running |-> steps, ret |-> SearchReturn(steps)]
  /\ UNCHANGED <<sonnets, dictionary, heap>>

\* a.combine_with(b) for the results a and b that search_for gives one
\* document for two words (a is b when the words are the same)
CombineWith ==
  /\ call = Idle
  /\ \E word1 \in QueryWords, word2 \in QueryWords :
       LET results1 == search_for(sonnets, dictionary, word1)
           results2 == search_for(sonnets, dictionary, word2)
       IN  \E id \in DictKeys(results1) \cap DictKeys(results2) :
             LET a == NewSearchResult(heap, DictGet(results1, id))
                 b == IF word1 = word2 THEN a
                      ELSE NewSearchResult(a.heap, DictGet(results2, id))
                 c == combine_with_obj(b.heap, a.ref, b.ref)
             IN  /\ heap' = c.heap
                 /\ call' = [op |-> "combine_with", self |-> a.ref, other |-> b.ref,
                             before |-> b.heap, ret |-> c.ref]
  /\ UNCHANGED <<sonnets, dictionary>>

\* the caller is done with the value returned and may call again
Return ==
  /\ call # Idle
  /\ call' = Idle
  /\ heap' = <<>>
  /\ UNCHANGED <<sonnets, dictionary>>

Next == SearchFor \/ Search \/ CombineWith \/ Return

Spec == Init /\ [][Next]_vars

----------------------------------------------------------------------------
(* Properties of search_for and search                                     *)

\* the words of the query of the search call
Words == split(call.query)

\* the documents (ids) the results of a list returned by search belong to
ResultDocs(list) ==
  {id \in DictKeys(sonnets) :
     \E i \in 1..Len(list) : list[i].title = DictGet(sonnets, id).title}

\* the result returned for document id
ResultOf(list, id) ==
  list[CHOOSE i \in 1..Len(list) : list[i].title = DictGet(sonnets, id).title]

\* the documents search_for finds for a word
HitDocs(word) == DictKeys(search_for(sonnets, dictionary, word))

\* the occurrences of a text's tokens whose stem is that of the word
TextOccurrences(text, word) ==
  Cardinality({i \in 1..Len(tokenize(text)) : stem(tokenize(text)[i].token) = stem(word)})

RECURSIVE LinesOccurrences(_, _)
LinesOccurrences(lines, word) ==
  IF lines = <<>> THEN 0
  ELSE TextOccurrences(Head(lines), word) + LinesOccurrences(Tail(lines), word)

DocOccurrences(doc, word) ==
  TextOccurrences(doc.title, word) + LinesOccurrences(doc.lines, word)

RECURSIVE QueryOccurrences(_, _)
QueryOccurrences(doc, words) ==
  IF words = <<>> THEN 0
  ELSE DocOccurrences(doc, Head(words)) + QueryOccurrences(doc, Tail(words))

\* C1: an AND search of two or more words returns only documents that
\* search_for finds for every word of the query.
C1_AndOnlySharedDocuments ==
  (call.op = "search" /\ call.search_mode = "AND" /\ Len(Words) >= 2) =>
    \A id \in ResultDocs(call.ret.value) :
      \A k \in 1..Len(Words) : id \in HitDocs(Words[k])

\* C2: a search with a mode other than "AND" and "OR" signals an error
\* instead of returning a list.
C2_UnknownModeRaises ==
  (call.op = "search" /\ call.search_mode \notin {"AND", "OR"}) => call.ret.raised

\* C4: the match count of every document returned by an AND or OR search is
\* the sum, over the words of the query with repetition, of the occurrences
\* in the document whose stem is the stem of the word.
C4_MatchesIsSumOverWords ==
  (call.op = "search" /\ call.search_mode \in {"AND", "OR"}) =>
    \A id \in ResultDocs(call.ret.value) :
      ResultOf(call.ret.value, id).matches
        = QueryOccurrences(DictGet(sonnets, id), Words)

\* every token of a document, as written
TokensOfDoc(id) == DocTokens(DictGet(sonnets, id))

\* the result of the search_for call holds document id with matches >= 1
Found(id) == DictHas(call.ret, id) /\ DictGet(call.ret, id).matches >= 1

\* C3 as claimed: search_for called with stem(t), for a token t of a
\* document, returns that document with matches >= 1.
C3_StemOfTokenFindsDocument ==
  call.op = "search_for" =>
    \A id \in DictKeys(sonnets) : \A t \in TokensOfDoc(id) :
      call.token = stem(t) => Found(id)

\* C3 amended: search_for called with any q whose stem is the stem of a
\* token t of a document returns that document with matches >= 1 (q = t
\* always, q = stem(t) when stemming stem(t) again leaves it unchanged).
C3_SameStemFindsDocument ==
  call.op = "search_for" =>
    \A id \in DictKeys(sonnets) : \A t \in TokensOfDoc(id) :
      stem(call.token) = stem(t) => Found(id)

\* a token whose stem stems further is searched as written and found
C3_Witness ==
  /\ call.op = "search_for"
  /\ \E id \in DictKeys(sonnets) :
       /\ call.token \in TokensOfDoc(id)
       /\ stem(stem(call.token)) # stem(call.token)
       /\ Found(id)

\* combined_results after the first k words of the query of the search call
Running(k) == call.running[k]

\* C5: an OR search returns exactly the documents search_for finds for some
\* word of the query, and a document of the running set that the next word
\* does not match keeps its result (title spans, line matches, count).
C5_OrIsUnionAndKeepsUnmatched ==
  (call.op = "search" /\ call.search_mode = "OR") =>
    LET n == Len(Words)
        returned == ResultDocs(call.ret.value)
    IN  /\ returned = UNION {HitDocs(Words[k]) : k \in 1..n}
        /\ Len(call.ret.value) = Cardinality(returned)
        /\ n > 0 => \A id \in DictKeys(Running(n)) :
                      ResultOf(call.ret.value, id) = DictGet(Running(n), id)
        /\ \A k \in 1..(n - 1) :
             \A id \in DictKeys(Running(k)) \ HitDocs(Words[k + 1]) :
               /\ DictHas(Running(k + 1), id)
               /\ DictGet(Running(k + 1), id) = DictGet(Running(k), id)

\* an OR search in which a later word misses a document an earlier word
\* matched, and matches one the earlier word missed
C5_Witness ==
  /\ call.op = "search" /\ call.search_mode = "OR"
  /\ \E k \in 1..(Len(Words) - 1) :
       /\ DictKeys(Running(k)) \ HitDocs(Words[k + 1]) # {}
       /\ HitDocs(Words[k + 1]) \ DictKeys(Running(k)) # {}

\* the text the span covers
Covered(text, span) == Slice(text, span[1], span[2])

\* the span is exactly one whitespace-delimited token of the text
IsTokenSpan(text, span) ==
  /\ 0 <= span[1] /\ span[1] < span[2] /\ span[2] <= Len(text)
  /\ \A i \in (span[1] + 1)..span[2] : ~isspace(text[i])
  /\ span[1] = 0 \/ isspace(text[span[1]])
  /\ span[2] = Len(text) \/ isspace(text[span[2] + 1])

\* the spans of a result, each with the text it is a span of
SpansOf(result) ==
  {<<result.title, result.title_spans[i]>> : i \in 1..Len(result.title_spans)}
  \cup UNION {{<<result.line_matches[j].text, result.line_matches[j].spans[i]>> :
                  i \in 1..Len(result.line_matches[j].spans)} :
               j \in 1..Len(result.line_matches)}

\* C7: every span search_for produces covers exactly one whole original
\* token of the raw title or line (whose stem is the one looked up), and the
\* line of a LineMatch is the document's line of that number.
C7_SpansCoverWholeTokens ==
  call.op = "search_for" =>
    \A i \in 1..Len(call.ret) :
      LET sonnet == DictGet(sonnets, call.ret[i].key)
          result == call.ret[i].value
      IN  /\ result.title = sonnet.title
          /\ \A j \in 1..Len(result.line_matches) :
               /\ result.line_matches[j].line_no \in 1..Len(sonnet.lines)
               /\ result.line_matches[j].text
                    = sonnet.lines[result.line_matches[j].line_no]
          /\ \A ts \in SpansOf(result) :
               /\ IsTokenSpan(ts[1], ts[2])
               /\ stem(Covered(ts[1], ts[2])) = stem(call.token)

\* search_for returns a span over a token with stripped punctuation that
\* stemming shortened
C7_Witness ==
  /\ call.op = "search_for"
  /\ \E i \in 1..Len(call.ret) : \E ts \in SpansOf(call.ret[i].value) :
       /\ \E c \in 1..Len(Covered(ts[1], ts[2])) : IsStripped(Covered(ts[1], ts[2])[c])
       /\ Len(stem(Covered(ts[1], ts[2]))) + 1 < ts[2][2] - ts[2][1]

\* the result of the combine_with call is the one the value-level
\* combine_with computes from the operands
CombineObjAgreesWithValue ==
  call.op = "combine_with" =>
    Deref(heap, call.ret)
      = combine_with(Deref(call.before, call.self), Deref(call.before, call.other))

\* C10: no call changes the index dictionary or the stored documents,
\* combine_with leaves the objects of both operands as they were and
\* returns a new object, and the same search on the index as the call left
\* it returns what the call returned.
C10_CallsLeaveIndexAndOperands ==
  [][ /\ dictionary' = dictionary
      /\ sonnets' = sonnets
      /\ call'.op = "search" =>
           call'.ret = search(sonnets', dictionary', call'.query, call'.search_mode)
      /\ call'.op = "search_for" =>
           call'.ret = search_for(sonnets', dictionary', call'.token)
      /\ call'.op = "combine_with" =>
           /\ \A ref \in 1..Len(call'.before) : heap'[ref] = call'.before[ref]
           /\ call'.ret \notin 1..Len(call'.before) ]_vars

\* a combine_with of two different results that share a line
C10_Witness ==
  /\ call.op = "combine_with"
  /\ call.self # call.other
  /\ \E i \in 1..Len(heap[call.self].line_matches) :
       \E j \in 1..Len(heap[call.other].line_matches) :
         heap[heap[call.self].line_matches[i]].line_no
           = heap[heap[call.other].line_matches[j]].line_no

----------------------------------------------------------------------------
(* SearchResult.combine_with on minimal results of one document            *)

\* largest end of a span of a minimal result
MaxOffset == 3

SpansUpTo(n) == {<<s, e>> : s \in 0..n, e \in 0..n} \ {<<s, e>> \in (0..n) \X (0..n) : s >= e}

\* the results of single postings of Doc1: one title span, or one line with one span
MinimalResults ==
  LET sonnet == Sonnet(Doc1)
  IN  {PostingResult(sonnet, Posting(line_no, sp[1], sp[2] - sp[1])) :
         line_no \in {NoLine} \cup (1..Len(sonnet.lines)), sp \in SpansUpTo(MaxOffset)}

InitCombine ==
  /\ sonnets = <<>>
  /\ dictionary = <<>>
  /\ heap = <<>>
  /\ call = Idle

\* the combinations of three minimal results, in both groupings and orders
CombineThree ==
  /\ call = Idle
  /\ \E a \in MinimalResults, b \in MinimalResults, c \in MinimalResults :
       call' = [op |-> "combine_three", a |-> a, b |-> b, c |-> c,
                ab |-> combine_with(a, b), ba |-> combine_with(b, a),
                ab_c |-> combine_with(combine_with(a, b), c),
                a_bc |-> combine_with(a, combine_with(b, c))]
  /\ UNCHANGED <<sonnets, dictionary, heap>>

NextCombine == CombineThree \/ Return

SpecCombine == InitCombine /\ [][NextCombine]_vars

\* how often v occurs in the list
Count(list, v) == Cardinality({i \in 1..Len(list) : list[i] = v})

SameMultiset(x, y) ==
  \A v \in {x[i] : i \in 1..Len(x)} \cup {y[i] : i \in 1..Len(y)} :
    Count(x, v) = Count(y, v)

\* the (line number, span) pairs of a result
LineSpanPairs(r) ==
  UNION {{<<r.line_matches[j].line_no, r.line_matches[j].spans[i]>> :
            i \in 1..Len(r.line_matches[j].spans)} : j \in 1..Len(r.line_matches)}

\* one LineMatch per line number, in ascending line order
LinesAscending(r) ==
  \A j \in 1..(Len(r.line_matches) - 1) :
    r.line_matches[j].line_no < r.line_matches[j + 1].line_no

SameEffect(x, y) ==
  /\ x.matches = y.matches
  /\ SameMultiset(x.title_spans, y.title_spans)
  /\ LineSpanPairs(x) = LineSpanPairs(y)
  /\ LinesAscending(x) /\ LinesAscending(y)

\* C6: for minimal results a, b, c of one document, combine(combine(a,b),c)
\* and combine(a,combine(b,c)), and combine(a,b) and combine(b,a), have the
\* same match count, the same multiset of title spans and the same set of
\* (line number, span) pairs, with one LineMatch per line in ascending order.
C6_CombineAssociativeCommutative ==
  call.op = "combine_three" =>
    /\ SameEffect(call.ab_c, call.a_bc)
    /\ SameEffect(call.ab, call.ba)

\* three results on one line with three different spans, listed in
\* different orders by combine(a,b) and combine(b,a)
C6_Witness ==
  /\ call.op = "combine_three"
  /\ call.ab_c.title_spans = <<>>
  /\ Len(call.ab_c.line_matches) = 1
  /\ Cardinality(LineSpanPairs(call.ab_c)) = Len(<<call.a, call.b, call.c>>)
  /\ call.ab.line_matches[1].spans # call.ba.line_matches[1].spans

----------------------------------------------------------------------------
(* stem on words made of a root and a suffix                               *)

Roots ==
  { <<"b","e","a","u","t","y">>, <<"l","o","v">>, <<"B","l","e","s","s">>,
    <<"n","a">>, <<"a","g","r">>, <<"k","i">>, <<"r">> }

Suffixes ==
  { <<>>, <<"s">>, <<"'","s">>, <<"s","s">>, <<"s","s","e","s">>, <<"i","e","s">>,
    <<"e","e","d">>, <<"e","d">>, <<"i","n","g">>, <<"i","n","g","s">>,
    <<"a","t","i","o","n","a","l">>, <<"t","i","o","n">>, <<"n","e","s","s">>,
    <<"m","e","n","t">>, <<"a","b","l","e">>, <<"i","b","l","e">>, <<"f","u","l">>,
    <<"o","u","s">>, <<"i","v","e">>, <<"l","y">>, <<"i","n","g","l","y">> }

StemWords == {root \o suffix : root \in Roots, suffix \in Suffixes}

\* stem(token)
Stem ==
  /\ call = Idle
  /\ \E token \in StemWords : call' = [op |-> "stem", token |-> token, ret |-> stem(token)]
  /\ UNCHANGED <<sonnets, dictionary, heap>>

NextStem == Stem \/ Return

SpecStem == InitCombine /\ [][NextStem]_vars

BeautyS == <<"b","e","a","u","t","y","'","s">>

\* C8 as claimed: stem("beauty's") is "beautys".
C8_StemBeautysKeepsS ==
  (call.op = "stem" /\ call.token = BeautyS) =>
    call.ret = <<"b","e","a","u","t","y","s">>

\* C8 amended: stem("beauty's") strips the apostrophe and the rule for a
\* final "s" then drops the s: the result is "beauty".
C8_StemBeautysIsBeauty ==
  (call.op = "stem" /\ call.token = BeautyS) =>
    call.ret = <<"b","e","a","u","t","y">>

\* stem("beauty's") has been called
C8_Witness == call.op = "stem" /\ call.token = BeautyS

----------------------------------------------------------------------------
(* ansi_highlight on lists of spans within a text                          *)

\* longest list of spans
MaxSpans == 3

HighlightText == <<"r","o","s","e">>

\* the spans within the text: 0 <= start <= end <= len(text)
SpansWithin(text) == {sp \in (0..Len(text)) \X (0..Len(text)) : sp[1] <= sp[2]}

SpanLists == UNION {[1..n -> SpansWithin(HighlightText)] : n \in 0..MaxSpans}

HighlightModes == {"DEFAULT", "GREEN"}

\* SearchResult.ansi_highlight(text, spans, highlight_mode)
AnsiHighlight ==
  /\ call = Idle
  /\ \E spans \in SpanLists, highlight_mode \in HighlightModes :
       call' = [op |-> "ansi_highlight", text |-> HighlightText, spans |-> spans,
                highlight_mode |-> highlight_mode,
                ret |-> ansi_highlight(HighlightText, spans, highlight_mode)]
  /\ UNCHANGED <<sonnets, dictionary, heap>>

NextHighlight == AnsiHighlight \/ Return

SpecHighlight == InitCombine /\ [][NextHighlight]_vars

IsMarker(x) == x \in {AnsiDefault, AnsiGreen, AnsiReset}
IsText(x) == ~IsMarker(x)

\* the regions the returned text wraps: from an escape sequence to the next
\* reset, as offsets into the text without the markers
RECURSIVE RegionsFrom(_, _, _, _)
RegionsFrom(out, k, pos, start) ==
  IF k > Len(out) THEN <<>>
  ELSE IF out[k] = AnsiReset THEN <<<<start, pos>>>> \o RegionsFrom(out, k + 1, pos, pos)
  ELSE IF IsMarker(out[k]) THEN RegionsFrom(out, k + 1, pos, pos)
  ELSE RegionsFrom(out, k + 1, pos + 1, start)

Regions(out) == RegionsFrom(out, 1, 0, 0)

\* the offsets the spans of a list cover
CoveredBy(spans) ==
  UNION {{p \in 0..spans[i][2] : spans[i][1] <= p /\ p < spans[i][2]} : i \in 1..Len(spans)}

\* C9: ansi_highlight wraps regions that are sorted, each starting strictly
\* after the one before ends, and that cover exactly what the input spans
\* cover; each region opens with the escape sequence of the mode and closes
\* with the reset; without the markers the text is the original, and with
\* no spans the text is returned unchanged.
C9_HighlightMergesSpans ==
  call.op = "ansi_highlight" =>
    LET out == call.ret
        regions == Regions(out)
        on == IF call.highlight_mode = "DEFAULT" THEN AnsiDefault ELSE AnsiGreen
        markers == SelectSeq(out, IsMarker)
    IN  /\ SelectSeq(out, IsText) = call.text
        /\ call.spans = <<>> => out = call.text
        /\ Len(markers) = 2 * Len(regions)
        /\ \A i \in 1..Len(regions) :
             /\ markers[2 * i - 1] = on /\ markers[2 * i] = AnsiReset
             /\ regions[i][1] <= regions[i][2]
        /\ \A i \in 1..(Len(regions) - 1) : regions[i][2] < regions[i + 1][1]
        /\ CoveredBy(regions) = CoveredBy(call.spans)
        /\ call.spans # <<>> => regions # <<>>

\* spans given out of order, two of them adjacent and merged into one
\* region, a third apart in a region of its own
C9_Witness ==
  /\ call.op = "ansi_highlight"
  /\ Len(call.spans) = 3
  /\ call.spans[1][1] > call.spans[2][1]
  /\ \A i \in 1..3 : call.spans[i][1] < call.spans[i][2]
  /\ \E i, j \in 1..3 : call.spans[i][2] = call.spans[j][1]
  /\ Len(Regions(call.ret)) = 2

====
